---- MODULE Spec2Model ----
(***************************************************************************)
(* Student Analytics Dashboard API (src/app/main.py).                      *)
(*                                                                         *)
(* The record store students_data is built once by generate_student_data,  *)
(* and five FastAPI handlers, all declared `async def`, read it.  Every    *)
(* handler runs as a coroutine on the single event-loop thread; none of    *)
(* them contains an await, and the two analytics handlers call the         *)
(* summarizer pipeline synchronously.                                      *)
(*                                                                         *)
(* Numbers.  Grades and attendance rates have one decimal place            *)
(* (round(..., 1)); they are kept as integers counted in tenths, so 95.0   *)
(* is 950.  A float quotient a / b is kept as the exact fraction           *)
(* [num |-> a, den |-> b].                                                 *)
(*                                                                         *)
(* Not modelled: the fields name, performance_metrics and last_updated of  *)
(* a record, and the text of the narrative report handed to the            *)
(* summarizer; the summarizer's answer is an opaque text.                  *)
(***************************************************************************)
EXTENDS Integers, Sequences, FiniteSets

VARIABLES students_data, pc, endpoint, student_id, locals, summarizer_calls,
          summarizer_outcome, response

vars == <<students_data, pc, endpoint, student_id, locals, summarizer_calls,
          summarizer_outcome, response>>

---------------------------------------------------------------------------
(* Bounds *)

MaxStudents == 2
MaxRequests == 2
MaxGradeStudents == 4
MaxHistStudents == 2
MaxTopStudents == 6
MaxSubjStudents == 3
MaxEmptyStudents == 1

---------------------------------------------------------------------------
(* Program constants *)

TopCount == 5
AttendanceThreshold == 800

Catalog == {"Mathematics", "Physics", "Chemistry", "Biology",
            "English Literature", "History", "Geography", "Computer Science"}

---------------------------------------------------------------------------
(* Helpers *)

Range(s) == {s[i] : i \in DOMAIN s}

Min(S) == CHOOSE m \in S : \A k \in S : m <= k

None == [none |-> TRUE]

Slots == DOMAIN pc

---------------------------------------------------------------------------
(* The data generator: lines 39-75.  Each record gets id i for i in        *)
(* 1..num_students, a grade, an attendance rate and a list of 4           *)
(* distinct subjects.  The random draws are taken from the given sets.     *)

generate_student_data(num_students, Grades, Attendances, SubjectLists) ==
    { [i \in 1..num_students |->
          [id |-> i, grade |-> f[i].grade, attendance |-> f[i].attendance,
           subjects |-> f[i].subjects]] :
      f \in [1..num_students ->
               [grade : Grades, attendance : Attendances, subjects : SubjectLists]] }

(* Sets the random draws are taken from.  All grades are in [60.0, 100.0], *)
(* all attendance rates in [75.0, 100.0], all subject lists are 4 distinct *)
(* subjects of the catalog.                                                *)

FewGrades == {700, 900}
TieGrades == {600, 700, 950}
EdgeGrades == {600, 699, 700, 799, 800, 899, 900, 1000}
TopGrades == {700, 850}
MeanGrades == {700, 701, 903}

OneAttendance == {900}
FewAttendances == {790, 800}

SubjectsA == <<"Mathematics", "Physics", "Chemistry", "Biology">>
SubjectsB == <<"English Literature", "History", "Geography", "Computer Science">>
SubjectsC == <<"Physics", "Mathematics", "History", "Geography">>

OneSubjectList == {SubjectsA}
FewSubjectLists == {SubjectsA, SubjectsB, SubjectsC}

---------------------------------------------------------------------------
(* Lookup of a record by id: lines 90 and 170,                             *)
(* next((s for s in students_data if s["id"] == student_id), None).        *)

(* Variant: the id used as a list index, students_data[student_id]. *)
find_student_by_index(data, sid) ==
    IF sid + 1 \in DOMAIN data THEN data[sid + 1] ELSE None

find_student(data, sid) ==
    LET hits == {i \in DOMAIN data : data[i].id = sid}
    IN  IF hits = {} THEN None ELSE data[Min(hits)]

---------------------------------------------------------------------------
(* Grade histogram: lines 100-107.  One mask per bucket.                   *)

In90to100(g) == g >= 900
(* Variant: the lower boundary left out of the 80-89 mask. *)
In80to89_open(g) == g > 800 /\ g < 900
In80to89(g) == g >= 800 /\ g < 900
In70to79(g) == g >= 700 /\ g < 800
In60to69(g) == g >= 600 /\ g < 700
InBelow60(g) == g < 600

BucketNames == {"90-100", "80-89", "70-79", "60-69", "Below 60"}

InBucket(b, g) ==
    CASE b = "90-100" -> In90to100(g)
      [] b = "80-89" -> In80to89(g)
      [] b = "70-79" -> In70to79(g)
      [] b = "60-69" -> In60to69(g)
      [] b = "Below 60" -> InBelow60(g)

grade_ranges(data) ==
    [b \in BucketNames |-> Cardinality({i \in DOMAIN data : InBucket(b, data[i].grade)})]

---------------------------------------------------------------------------
(* Subject averages: lines 109-115.                                        *)

RECURSIVE SumGrades(_)
SumGrades(s) == IF s = << >> THEN 0 ELSE s[1].grade + SumGrades(Tail(s))

RECURSIVE SumAttendance(_)
SumAttendance(s) == IF s = << >> THEN 0 ELSE s[1].attendance + SumAttendance(Tail(s))

AllSubjects(data) == UNION {Range(data[i].subjects) : i \in DOMAIN data}

(* Variant: the average taken over all records. *)
HasSubject_any(student, subject) == TRUE

HasSubject(student, subject) == subject \in Range(student.subjects)

subject_students(data, subject) == SelectSeq(data, LAMBDA s : HasSubject(s, subject))

(* round(total / n, 1) with total in tenths: the nearest whole number of   *)
(* tenths.  When total / n lies exactly halfway between two tenths the     *)
(* float quotient and its binary representation decide the direction, so   *)
(* both neighbours are possible results.                                   *)
Round1(total, n) ==
    LET q == total \div n
        r == total % n
    IN  IF 2 * r < n THEN {q}
        ELSE IF 2 * r > n THEN {q + 1}
        ELSE {q, q + 1}

IsHalfway(total, n) == 2 * (total % n) = n

SubjectKeys(data) == {s \in AllSubjects(data) : subject_students(data, s) # << >>}

(* The possible values of the dict subject_stats, one per way of resolving *)
(* the halfway cases.                                                      *)
subject_stats(data) ==
    LET keys == SubjectKeys(data)
        total(s) == SumGrades(subject_students(data, s))
        n(s) == Len(subject_students(data, s))
        halfway == {s \in keys : IsHalfway(total(s), n(s))}
    IN  { [s \in keys |->
             IF s \in halfway
             THEN (IF s \in up THEN (total(s) \div n(s)) + 1 ELSE total(s) \div n(s))
             ELSE Min(Round1(total(s), n(s)))] : up \in SUBSET halfway }

---------------------------------------------------------------------------
(* Top performers: line 124,                                               *)
(* sorted(students_data, key=grade, reverse=True)[:5].  sorted is stable   *)
(* and reverse=True keeps the original order of equal keys.                *)

(* Variant: a sort that puts a record before the earlier records of equal  *)
(* grade.                                                                  *)
InsertByGrade_unstable(x, s) ==
    LET k == Cardinality({i \in DOMAIN s : s[i].grade > x.grade})
    IN  SubSeq(s, 1, k) \o <<x>> \o SubSeq(s, k + 1, Len(s))

InsertByGrade(x, s) ==
    LET k == Cardinality({i \in DOMAIN s : s[i].grade >= x.grade})
    IN  SubSeq(s, 1, k) \o <<x>> \o SubSeq(s, k + 1, Len(s))

RECURSIVE sorted_by_grade_desc(_)
sorted_by_grade_desc(s) ==
    IF s = << >> THEN << >>
    ELSE InsertByGrade(s[Len(s)], sorted_by_grade_desc(SubSeq(s, 1, Len(s) - 1)))

Slice(s, n) == SubSeq(s, 1, IF Len(s) < n THEN Len(s) ELSE n)

top_performers(data) == Slice(sorted_by_grade_desc(data), TopCount)

(* Line 125. *)
attendance_concerns(data) == SelectSeq(data, LAMBDA s : s.attendance < AttendanceThreshold)

(* The dict stats of lines 118-126, given the value of subject_stats. *)
stats(data, ss) ==
    [average_grade |-> [num |-> SumGrades(data), den |-> Len(data)],
     average_attendance |-> [num |-> SumAttendance(data), den |-> Len(data)],
     total_students |-> Len(data),
     grade_distribution |-> grade_ranges(data),
     subject_stats |-> ss,
     top_performers |-> top_performers(data),
     attendance_concerns |-> attendance_concerns(data)]

---------------------------------------------------------------------------
(* Percentile: lines 174-176.                                              *)

(* Variant: ties counted as below. *)
IsBelow_or_equal(g, target) == g <= target

IsBelow(g, target) == g < target

RECURSIVE CountBelow(_, _)
CountBelow(all_grades, target) ==
    IF all_grades = << >> THEN 0
    ELSE (IF IsBelow(all_grades[1], target) THEN 1 ELSE 0) + CountBelow(Tail(all_grades), target)

student_percentile(data, student) ==
    LET all_grades == [i \in DOMAIN data |-> data[i].grade]
    IN  [num |-> CountBelow(all_grades, student.grade) * 100, den |-> Len(all_grades)]

---------------------------------------------------------------------------
(* Responses *)

WelcomeMessage == "Welcome to Student Analytics Dashboard API"
SummaryText == "summary_text"

NoResponse == [status |-> 0, body |-> None]
NoLocals == None

(* raise HTTPException(status_code=404, detail="Student not found"):       *)
(* lines 92 and 172.                                                       *)
NotFound == [status |-> 404, body |-> [detail |-> "Student not found"]]

(* An exception that leaves a handler uncaught: the framework answers 500. *)
ServerError == [status |-> 500, body |-> [detail |-> "Internal Server Error"]]

(* The columns of pd.DataFrame(students_data), line 98: the keys of the    *)
(* records, none for an empty list.                                        *)
df_columns(data) ==
    IF data = << >> THEN {} ELSE {"id", "grade", "attendance", "subjects"}

(* Variant: the summarizer's exception swallowed, empty insights returned. *)
summary_response_swallow(loc, outcome) ==
    [status |-> 200,
     body |-> [statistics |-> loc.stats,
               llm_insights |-> IF outcome = "ok" THEN SummaryText ELSE ""]]

(* Lines 161-166: the value get_analytics_summary returns, or the          *)
(* exception of the summarizer leaving the handler.                        *)
summary_response(loc, outcome) ==
    IF outcome = "ok"
    THEN [status |-> 200, body |-> [statistics |-> loc.stats, llm_insights |-> SummaryText]]
    ELSE ServerError

(* Lines 204-210, likewise for get_student_performance. *)
performance_response(loc, outcome) ==
    IF outcome = "ok"
    THEN [status |-> 200,
          body |-> [student_data |-> loc.student, llm_insights |-> SummaryText,
                    percentile |-> loc.student_percentile]]
    ELSE ServerError

(* Variant: students_data.sort(...), which sorts the list in place. *)
after_sort_in_place(data) == sorted_by_grade_desc(data)

(* sorted(...) on line 124 builds a new list; the list it is given stays   *)
(* as it was.                                                              *)
after_sorted(data) == data

---------------------------------------------------------------------------
(* Requests.  pc[r] is "idle" (no request), "pending" (request received,   *)
(* handler not yet started), "summarizer" (handler inside the synchronous  *)
(* summarizer call) or "done" (response ready).                            *)

Endpoints == {"root", "students", "student", "summary", "performance"}

HasId(e) == e \in {"student", "performance"}

RequestIds == 0..(Len(students_data) + 1)

SummarizerOutcomes == {"ok", "raised"}

(* The handlers are coroutines without an await: the event loop runs one   *)
(* from its first line to its return, the summarizer call included, before *)
(* it starts another (lines 81, 85, 89, 96, 169; calls on 161 and 204).    *)
EventLoopFree == \A r \in Slots : pc[r] # "summarizer"

CanStart(r, e) == pc[r] = "pending" /\ endpoint[r] = e /\ EventLoopFree

Finish(r, resp) ==
    /\ pc' = [pc EXCEPT ![r] = "done"]
    /\ response' = [response EXCEPT ![r] = resp]

(* A client sends a request. *)
Arrive(r) ==
    /\ pc[r] = "idle"
    /\ \E e \in Endpoints :
         \E sid \in RequestIds :
            /\ (~HasId(e) => sid = 0)
            /\ endpoint' = [endpoint EXCEPT ![r] = e]
            /\ student_id' = [student_id EXCEPT ![r] = sid]
    /\ pc' = [pc EXCEPT ![r] = "pending"]
    /\ UNCHANGED <<students_data, locals, summarizer_calls, summarizer_outcome, response>>

(* Lines 80-82. *)
root(r) ==
    /\ CanStart(r, "root")
    /\ Finish(r, [status |-> 200, body |-> [message |-> WelcomeMessage]])
    /\ UNCHANGED <<students_data, endpoint, student_id, locals, summarizer_calls, summarizer_outcome>>

(* Lines 84-86. *)
get_students(r) ==
    /\ CanStart(r, "students")
    /\ Finish(r, [status |-> 200, body |-> students_data])
    /\ UNCHANGED <<students_data, endpoint, student_id, locals, summarizer_calls, summarizer_outcome>>

(* Lines 88-93. *)
get_student(r) ==
    /\ CanStart(r, "student")
    /\ LET student == find_student(students_data, student_id[r])
       IN  IF student = None
           THEN Finish(r, NotFound)
           ELSE Finish(r, [status |-> 200, body |-> student])
    /\ UNCHANGED <<students_data, endpoint, student_id, locals, summarizer_calls, summarizer_outcome>>

(* Lines 95-161: the statistics, then the call of the summarizer.  On an   *)
(* empty list df["grade"] (line 102) raises KeyError.                      *)
get_analytics_summary(r) ==
    /\ CanStart(r, "summary")
    /\ IF "grade" \notin df_columns(students_data)
       THEN /\ Finish(r, ServerError)
            /\ UNCHANGED <<students_data, locals, summarizer_calls>>
       ELSE /\ \E ss \in subject_stats(students_data) :
                  locals' = [locals EXCEPT ![r] = [stats |-> stats(students_data, ss)]]
            /\ students_data' = after_sorted(students_data)
            /\ summarizer_calls' = [summarizer_calls EXCEPT ![r] = @ + 1]
            /\ pc' = [pc EXCEPT ![r] = "summarizer"]
            /\ UNCHANGED response
    /\ UNCHANGED <<endpoint, student_id, summarizer_outcome>>

(* Lines 161-166: the summarizer returns or raises. *)
analytics_summary_return(r) ==
    /\ pc[r] = "summarizer"
    /\ endpoint[r] = "summary"
    /\ \E outcome \in SummarizerOutcomes :
          /\ summarizer_outcome' = [summarizer_outcome EXCEPT ![r] = outcome]
          /\ Finish(r, summary_response(locals[r], outcome))
    /\ UNCHANGED <<students_data, endpoint, student_id, locals, summarizer_calls>>

(* Variant: the summarizer called before the lookup result is tested. *)
get_student_performance_summarize_first(r) ==
    /\ CanStart(r, "performance")
    /\ summarizer_calls' = [summarizer_calls EXCEPT ![r] = @ + 1]
    /\ LET student == find_student(students_data, student_id[r])
       IN  IF student = None
           THEN /\ Finish(r, NotFound)
                /\ UNCHANGED locals
           ELSE /\ locals' = [locals EXCEPT ![r] =
                                 [student |-> student,
                                  student_percentile |-> student_percentile(students_data, student)]]
                /\ pc' = [pc EXCEPT ![r] = "summarizer"]
                /\ UNCHANGED response
    /\ UNCHANGED <<students_data, endpoint, student_id, summarizer_outcome>>

(* Lines 168-204: lookup, percentile, then the call of the summarizer. *)
get_student_performance(r) ==
    /\ CanStart(r, "performance")
    /\ LET student == find_student(students_data, student_id[r])
       IN  IF student = None
           THEN /\ Finish(r, NotFound)
                /\ UNCHANGED <<locals, summarizer_calls>>
           ELSE /\ locals' = [locals EXCEPT ![r] =
                                 [student |-> student,
                                  student_percentile |-> student_percentile(students_data, student)]]
                /\ summarizer_calls' = [summarizer_calls EXCEPT ![r] = @ + 1]
                /\ pc' = [pc EXCEPT ![r] = "summarizer"]
                /\ UNCHANGED response
    /\ UNCHANGED <<students_data, endpoint, student_id, summarizer_outcome>>

(* Lines 204-210: the summarizer returns or raises. *)
student_performance_return(r) ==
    /\ pc[r] = "summarizer"
    /\ endpoint[r] = "performance"
    /\ \E outcome \in SummarizerOutcomes :
          /\ summarizer_outcome' = [summarizer_outcome EXCEPT ![r] = outcome]
          /\ Finish(r, performance_response(locals[r], outcome))
    /\ UNCHANGED <<students_data, endpoint, student_id, locals, summarizer_calls>>

(* The client has its response; the slot is free for the next request. *)
Respond(r) ==
    /\ pc[r] = "done"
    /\ pc' = [pc EXCEPT ![r] = "idle"]
    /\ endpoint' = [endpoint EXCEPT ![r] = "root"]
    /\ student_id' = [student_id EXCEPT ![r] = 0]
    /\ locals' = [locals EXCEPT ![r] = NoLocals]
    /\ summarizer_calls' = [summarizer_calls EXCEPT ![r] = 0]
    /\ summarizer_outcome' = [summarizer_outcome EXCEPT ![r] = "none"]
    /\ response' = [response EXCEPT ![r] = NoResponse]
    /\ UNCHANGED students_data

Next ==
    \E r \in Slots :
       \/ Arrive(r)
       \/ root(r)
       \/ get_students(r)
       \/ get_student(r)
       \/ get_analytics_summary(r)
       \/ analytics_summary_return(r)
       \/ get_student_performance(r)
       \/ student_performance_return(r)
       \/ Respond(r)

---------------------------------------------------------------------------
(* Initial states: the record store as generate_student_data leaves it     *)
(* (line 78) and no request.                                               *)

InitWith(stores, nslots) ==
    /\ students_data \in stores
    /\ pc = [r \in 1..nslots |-> "idle"]
    /\ endpoint = [r \in 1..nslots |-> "root"]
    /\ student_id = [r \in 1..nslots |-> 0]
    /\ locals = [r \in 1..nslots |-> NoLocals]
    /\ summarizer_calls = [r \in 1..nslots |-> 0]
    /\ summarizer_outcome = [r \in 1..nslots |-> "none"]
    /\ response = [r \in 1..nslots |-> NoResponse]

Stores(lo, hi, Grades, Attendances, SubjectLists) ==
    UNION {generate_student_data(n, Grades, Attendances, SubjectLists) : n \in lo..hi}

(* Concurrent requests over a small store. *)
Init == InitWith(Stores(1, MaxStudents, FewGrades, OneAttendance, OneSubjectList), MaxRequests)
Spec == Init /\ [][Next]_vars

(* One request at a time; stores with tied grades. *)
InitGrades == InitWith(Stores(1, MaxGradeStudents, TieGrades, OneAttendance, OneSubjectList), 1)
SpecGrades == InitGrades /\ [][Next]_vars

(* Stores with grades on and next to the bucket boundaries. *)
InitHist == InitWith(Stores(1, MaxHistStudents, EdgeGrades, OneAttendance, OneSubjectList), 1)
SpecHist == InitHist /\ [][Next]_vars

(* Stores with more records than the top list holds. *)
InitTop == InitWith(Stores(1, MaxTopStudents, TopGrades, OneAttendance, OneSubjectList), 1)
SpecTop == InitTop /\ [][Next]_vars

(* Stores with different subject lists. *)
InitSubj == InitWith(Stores(1, MaxSubjStudents, MeanGrades, OneAttendance, FewSubjectLists), 1)
SpecSubj == InitSubj /\ [][Next]_vars

(* The store of generate_student_data(0) and its neighbours. *)
InitEmpty == InitWith(Stores(0, MaxEmptyStudents, EdgeGrades, FewAttendances, FewSubjectLists), 1)
SpecEmpty == InitEmpty /\ [][Next]_vars

---------------------------------------------------------------------------
(* Properties *)

Done(r, e) == pc[r] = "done" /\ endpoint[r] = e

Succeeded(r, e) == Done(r, e) /\ response[r].status = 200

Matches(sid) == \E i \in DOMAIN students_data : students_data[i].id = sid

GradesOf(data) == [i \in DOMAIN data |-> data[i].grade]

Abs(x) == IF x < 0 THEN -x ELSE x

(* C1: a performance response carries percentile = (number of records with *)
(* a grade strictly below the target's) / (number of records) * 100;       *)
(* records tied with the target get the same percentile; the grades        *)
(* [95, 70, 70, 60] give 75, 25, 25, 0.                                    *)
ExampleGrades == <<950, 700, 700, 600>>
ExamplePercentiles == <<75, 25, 25, 0>>

C1_Percentile ==
    \A r \in Slots :
       Succeeded(r, "performance") =>
          LET t == response[r].body.student_data
              p == response[r].body.percentile
              below == {i \in DOMAIN students_data : students_data[i].grade < t.grade}
          IN  /\ p.den = Len(students_data)
              /\ p.num = 100 * Cardinality(below)
              /\ \A j \in DOMAIN students_data :
                    students_data[j].grade = t.grade =>
                       student_percentile(students_data, students_data[j]) = p
              /\ GradesOf(students_data) = ExampleGrades =>
                    p.num = ExamplePercentiles[t.id] * p.den

C1_Witness ==
    \E r \in Slots :
       /\ Succeeded(r, "performance")
       /\ GradesOf(students_data) = ExampleGrades
       /\ response[r].body.student_data.id = 3
       /\ response[r].body.percentile = [num |-> 100, den |-> 4]

(* C2: in the grade_distribution of a summary response every record is     *)
(* counted in exactly one of the five buckets, 90, 80, 70 and 60 belonging *)
(* to the upper bucket, so the five counts sum to the number of records.   *)
BucketOf(g) ==
    IF g >= 900 THEN "90-100"
    ELSE IF g >= 800 THEN "80-89"
    ELSE IF g >= 700 THEN "70-79"
    ELSE IF g >= 600 THEN "60-69"
    ELSE "Below 60"

C2_Histogram ==
    \A r \in Slots :
       Succeeded(r, "summary") =>
          LET gd == response[r].body.statistics.grade_distribution
          IN  /\ DOMAIN gd = BucketNames
              /\ \A b \in BucketNames :
                    gd[b] = Cardinality({i \in DOMAIN students_data :
                                            BucketOf(students_data[i].grade) = b})
              /\ gd["90-100"] + gd["80-89"] + gd["70-79"] + gd["60-69"] + gd["Below 60"]
                    = Len(students_data)

C2_Witness ==
    \E r \in Slots :
       /\ Succeeded(r, "summary")
       /\ GradesOf(students_data) = <<800, 900>>
       /\ response[r].body.statistics.grade_distribution["80-89"] = 1
       /\ response[r].body.statistics.grade_distribution["90-100"] = 1

(* C3: on an empty record set the summary operation returns a degenerate   *)
(* result (total_students 0, average_grade 0 or null, all five counts 0,   *)
(* subject_stats empty) and raises nothing.                                *)
C3_EmptySummary ==
    \A r \in Slots :
       (Done(r, "summary") /\ students_data = << >> /\ summarizer_outcome[r] # "raised") =>
          /\ response[r].status = 200
          /\ response[r].body.statistics.total_students = 0
          /\ \A b \in BucketNames : response[r].body.statistics.grade_distribution[b] = 0
          /\ DOMAIN response[r].body.statistics.subject_stats = {}

(* C4: the two lookups by id answer 404 "Student not found" exactly when   *)
(* no record has the id; otherwise what they return is the record with     *)
(* that id; on the 404 path no percentile is computed and the summarizer   *)
(* is not called.                                                          *)
C4_NotFound ==
    \A r \in Slots :
       /\ (Done(r, "student") \/ Done(r, "performance")) =>
             /\ (response[r].status = 404) <=> ~Matches(student_id[r])
             /\ (response[r] = NotFound) <=> ~Matches(student_id[r])
             /\ response[r].status = 404 =>
                   /\ locals[r] = NoLocals
                   /\ summarizer_calls[r] = 0
                   /\ summarizer_outcome[r] = "none"
       /\ Succeeded(r, "student") =>
             /\ response[r].body \in Range(students_data)
             /\ response[r].body.id = student_id[r]
       /\ Succeeded(r, "performance") =>
             /\ response[r].body.student_data \in Range(students_data)
             /\ response[r].body.student_data.id = student_id[r]
       /\ (Done(r, "student") /\ Matches(student_id[r])) => response[r].status = 200
       /\ (Done(r, "performance") /\ Matches(student_id[r]) /\ summarizer_outcome[r] = "ok") =>
             response[r].status = 200

C4_Witness ==
    \E r, q \in Slots :
       /\ Done(r, "performance") /\ response[r] = NotFound
       /\ Succeeded(q, "student") /\ response[q].body.id = 2

(* C5: top_performers has length min(5, N), is sorted by grade descending, *)
(* holds no record with a lower grade than an excluded record, keeps       *)
(* records of equal grade in their original order, and for N < 5 holds all *)
(* records.                                                                *)
C5_TopPerformers ==
    \A r \in Slots :
       Succeeded(r, "summary") =>
          LET top == response[r].body.statistics.top_performers
              N == Len(students_data)
              out == Range(students_data) \ Range(top)
          IN  /\ Len(top) = IF N < 5 THEN N ELSE 5
              /\ Range(top) \subseteq Range(students_data)
              /\ \A i, j \in DOMAIN top :
                    i < j => /\ top[i].grade >= top[j].grade
                             /\ top[i].id # top[j].id
                             /\ top[i].grade = top[j].grade => top[i].id < top[j].id
              /\ \A x \in out : \A i \in DOMAIN top :
                    /\ top[i].grade >= x.grade
                    /\ top[i].grade = x.grade => top[i].id < x.id
              /\ N < 5 => Range(top) = Range(students_data)

C5_Witness ==
    \E r \in Slots :
       /\ Succeeded(r, "summary")
       /\ GradesOf(students_data) = <<700, 850, 700, 700, 850, 700>>
       /\ [i \in 1..5 |-> response[r].body.statistics.top_performers[i].id] = <<2, 5, 1, 3, 4>>

(* C6: while one request is inside the summarizer call, a waiting          *)
(* GET /students or GET /students/{id} request can be served before that   *)
(* call returns.                                                           *)
C6_NotBlocked ==
    \A r, q \in Slots :
       (pc[r] = "summarizer" /\ pc[q] = "pending" /\ endpoint[q] \in {"students", "student"}) =>
          ENABLED (get_students(q) \/ get_student(q))

(* C7: no request, successful or failing, changes the record store: no     *)
(* record is added, removed, reordered or changed.                         *)
C7_StoreUnchanged == [][students_data' = students_data]_vars

C7_Witness ==
    \E r, q \in Slots :
       /\ Succeeded(r, "summary")
       /\ Done(q, "student") /\ response[q] = NotFound
       /\ GradesOf(students_data) = <<700, 900>>

(* C8: the summarizer is invoked exactly once in each summary request and  *)
(* each performance request that finds its student, and not at all in any  *)
(* other request; never more than once per request.                        *)
CallsDue(r) ==
    IF endpoint[r] = "summary" \/ (endpoint[r] = "performance" /\ Matches(student_id[r]))
    THEN 1 ELSE 0

C8_OncePerRequest ==
    \A r \in Slots :
       /\ summarizer_calls[r] <= 1
       /\ pc[r] \in {"idle", "pending"} => summarizer_calls[r] = 0
       /\ pc[r] = "summarizer" => summarizer_calls[r] = 1
       /\ pc[r] = "done" => summarizer_calls[r] = CallsDue(r)

C8_Witness ==
    \E r, q \in Slots :
       /\ Done(r, "performance") /\ response[r] = NotFound /\ summarizer_calls[r] = 0
       /\ Succeeded(q, "performance") /\ summarizer_calls[q] = 1

(* C9 as stated: the keys of subject_stats are exactly the subjects that   *)
(* occur in some record, and each value is the mean grade of the records   *)
(* that list the subject.                                                  *)
Listing(subject) == {i \in DOMAIN students_data : subject \in Range(students_data[i].subjects)}

RECURSIVE GradeSum(_)
GradeSum(I) ==
    IF I = {} THEN 0
    ELSE LET i == CHOOSE k \in I : TRUE IN students_data[i].grade + GradeSum(I \ {i})

KeysExact(ss) ==
    /\ DOMAIN ss = {s \in Catalog : Listing(s) # {}}
    /\ \A s \in DOMAIN ss : Listing(s) # {}

C9_ExactMean ==
    \A r \in Slots :
       Succeeded(r, "summary") =>
          LET ss == response[r].body.statistics.subject_stats
          IN  /\ KeysExact(ss)
              /\ \A s \in DOMAIN ss : ss[s] * Cardinality(Listing(s)) = GradeSum(Listing(s))

(* C9 amended: the keys are exactly the subjects that occur in some        *)
(* record, and each value is the mean grade of the records that list the   *)
(* subject rounded to one decimal place (at most 0.05 from the mean).      *)
C9_RoundedMean ==
    \A r \in Slots :
       Succeeded(r, "summary") =>
          LET ss == response[r].body.statistics.subject_stats
          IN  /\ KeysExact(ss)
              /\ \A s \in DOMAIN ss :
                    2 * Abs(ss[s] * Cardinality(Listing(s)) - GradeSum(Listing(s)))
                       <= Cardinality(Listing(s))

C9_Witness ==
    \E r \in Slots :
       /\ Succeeded(r, "summary")
       /\ Len(students_data) = 3
       /\ students_data[1].subjects = SubjectsA /\ students_data[1].grade = 700
       /\ students_data[2].subjects = SubjectsC /\ students_data[2].grade = 903
       /\ students_data[3].subjects = SubjectsC /\ students_data[3].grade = 701
       /\ response[r].body.statistics.subject_stats["Physics"] = 768
       /\ response[r].body.statistics.subject_stats["Chemistry"] = 700
       /\ response[r].body.statistics.subject_stats["History"] = 802
       /\ "Computer Science" \notin DOMAIN response[r].body.statistics.subject_stats

(* C10: when the summarizer fails, the request ends in a failure that is   *)
(* neither a success (so never a success with empty or missing             *)
(* llm_insights) nor the 404 "Student not found".                          *)
C10_DistinctFailure ==
    \A r \in Slots :
       /\ (pc[r] = "done" /\ summarizer_outcome[r] = "raised") =>
             /\ response[r].status \notin {200, 404}
             /\ response[r] # NotFound
       /\ (Succeeded(r, "summary") \/ Succeeded(r, "performance")) =>
             /\ summarizer_outcome[r] = "ok"
             /\ response[r].body.llm_insights = SummaryText

C10_Witness ==
    \E r, q \in Slots :
       /\ Done(r, "summary") /\ summarizer_outcome[r] = "raised" /\ response[r].status = 500
       /\ Done(q, "performance") /\ summarizer_outcome[q] = "raised" /\ response[q].status = 500

====
